---- MODULE Spec2Model ----
(***************************************************************************)
(* State-machine model of NFTBridge.svelte (bridge-ui-v2): the NFT bridging *)
(* workflow component.  The shared stores ($selectedToken, $network,        *)
(* $destinationChain, $account), the component's local variables, the      *)
(* deferred form updates scheduled with tick(), and the two asynchronous    *)
(* orchestrators approve() and bridge(), which suspend at every await of an *)
(* external call.                                                          *)
(***************************************************************************)
EXTENDS Integers, Sequences, FiniteSets, TLC

\* ------------------------------------------------------------------ bounds
\* Deferred form updates (tick().then callbacks) that may be queued at once.
MaxTicks == 2
\* Records the per-address transaction log may hold in total.
MaxLog == 1

\* ------------------------------------------------------- values and config
\* NFTSteps (imported from ./types): a numeric enum, in workflow order.
IMPORT == 0
REVIEW == 1
CONFIRM == 2

\* A store holding null/undefined: a chain id that is falsy.
NoChain == 0
Chains == {1, 2, 3}
ChainOrNone == Chains \cup {NoChain}

\* routingContractsMap: the configured (source, destination) pairs.
Routes == {<<1, 2>>, <<2, 1>>, <<2, 3>>, <<3, 2>>}

\* null / undefined for the string-valued state.
NULL == "null"
ETHToken == "ETH"
\* Tokens are named by their TokenType discriminant.
NFTTokens == {"ERC721", "ERC1155"}
TokenOrNull == NFTTokens \cup {ETHToken, NULL}

\* $account: a connected account with an address, or a disconnected one
\* (isDisconnected = true, address undefined).
Accounts == {"0xa1", "0xa2", "disconnected"}
isDisconnected(acc) == acc = "disconnected"
addressOf(acc) == IF acc = "disconnected" THEN NULL ELSE acc

\* The selections the import step can bind into selectedNFT (by tokenId).
Selections == {<<>>, <<7, 9>>}

\* hasBridge(srcChainId, destChainId) from $libs/bridge/bridges.
hasBridge(src, dest) == <<src, dest>> \in Routes

Min(a, b) == IF a < b THEN a ELSE b
Max(a, b) == IF a > b THEN a ELSE b

VARIABLES
  activeStep,        \* let activeStep: NFTSteps
  importMethod,      \* 'scan' | 'manual'
  selectedToken,     \* $selectedToken
  destinationChain,  \* $destinationChain (its id, NoChain when null)
  network,           \* $network (its id, NoChain when null)
  account,           \* $account
  selectedNFT,       \* let selectedNFT: NFT[] (the tokenIds)
  canProceed,
  scanned,
  contractAddress,   \* Address | ''
  nftIdArray,        \* let nftIdArray: number[]
  scanning,          \* let scanning: boolean
  foundNFTs,         \* let foundNFTs: NFT[] (the tokenIds)
  scanCall,          \* "fetching" while scanForNFTs awaits fetchNFTs
  mounted,           \* FALSE once the component has been destroyed
  tickQueue,         \* callbacks of tick().then(...) not yet run, oldest first
  call,              \* the approve()/bridge() invocation in flight or last settled
  txLog,             \* bridgeTxService: address -> records, in insertion order
  lastOp             \* the operation that produced this state, with its arguments

vars == <<activeStep, importMethod, selectedToken, destinationChain, network,
          account, selectedNFT, canProceed, scanned, contractAddress, nftIdArray,
          scanning, foundNFTs, scanCall, mounted, tickQueue, call, txLog, lastOp>>

stores == <<selectedToken, destinationChain, network, account>>
form == <<selectedNFT, canProceed, scanned, contractAddress>>
scanVars == <<scanning, foundNFTs, scanCall>>

\* lastOp: the name of the operation and the case of it that was taken.
Op(name) == [name |-> name, case |-> "none"]

\* ------------------------------------------------------------- resetForm
\* Lines 241-258.  No dependent component is ever bound (the template holds no
\* bind:this), so every guarded clearing call is skipped; line 254 is a
\* comparison, not an assignment, and leaves importMethod alone.
resetFormToken == ETHToken

\* The dependent components resetForm calls into (lines 243-250), the handles
\* the component holds (lines 52-54, 274-275: none is ever bound), and the
\* handles resetForm tests before it uses them.
Components == {"amount", "recipient", "processingFee", "addressInput", "nftIdInput"}
boundComponents == {}
resetFormGuards == Components

\* Faulty variant: line 250 calls clearIds() without testing the handle.
resetFormThrowsOnIds(present) ==
  \E c \in Components \ (resetFormGuards \ {"nftIdInput"}) : c \notin present

\* Whether resetForm raises with the components of present bound: it calls a
\* method of an absent component it did not test.
resetFormThrows(present) ==
  \E c \in Components \ resetFormGuards : c \notin present

\* Faulty variant: the reset forgets the scanned flag.
resetFormKeepsScanned ==
  /\ selectedToken' = resetFormToken
  /\ contractAddress' = ""
  /\ UNCHANGED scanned
  /\ canProceed' = FALSE
  /\ selectedNFT' = <<>>

resetForm ==
  IF resetFormThrows(boundComponents)
    THEN UNCHANGED <<selectedToken, form>>
    ELSE /\ selectedToken' = resetFormToken
         /\ contractAddress' = ""
         /\ scanned' = FALSE
         /\ canProceed' = FALSE
         /\ selectedNFT' = <<>>

\* runValidations (lines 80-83): both components are absent, nothing is done.
runValidations == UNCHANGED <<selectedToken, form>>

\* ------------------------------------------------------ step arithmetic
\* Faulty variant: nextStep without the upper clamp.
nextStepOfUnclamped(step) == step + 1

nextStepOf(step) == Min(step + 1, CONFIRM)
previousStepOf(step) == Max(step - 1, IMPORT)

\* ----------------------------------------------------- onNetworkChange
\* Faulty variant: the swap of lines 66-69 is left out.
onNetworkChangeDestNoSwap(newNetwork, oldNetwork, dest) ==
  IF newNetwork = NoChain THEN dest
  ELSE IF dest = NoChain THEN dest
  ELSE IF hasBridge(newNetwork, dest) THEN oldNetwork
  ELSE NoChain

\* Faulty variant: the destination is kept when there is no route (lines 73-76).
onNetworkChangeDestKept(newNetwork, oldNetwork, dest) ==
  IF newNetwork = NoChain THEN dest
  ELSE IF dest = NoChain THEN dest
  ELSE IF newNetwork = dest THEN oldNetwork
  ELSE IF hasBridge(newNetwork, dest) THEN oldNetwork
  ELSE dest

\* Lines 62-77: the destination chain after the handler.
onNetworkChangeDest(newNetwork, oldNetwork, dest) ==
  IF newNetwork = NoChain THEN dest
  ELSE IF dest = NoChain THEN dest
  ELSE IF newNetwork = dest THEN oldNetwork
  ELSE IF hasBridge(newNetwork, dest) THEN oldNetwork
  ELSE NoChain

\* updateForm (lines 93-102): the callback is queued behind the current tick.
updateForm(origin) == tickQueue' = Append(tickQueue, origin)

\* Which branch of lines 62-77 a delivery takes.
networkCase(newNetwork, dest) ==
  IF newNetwork = NoChain \/ dest = NoChain THEN "none"
  ELSE IF newNetwork = dest THEN "swap"
  ELSE IF hasBridge(newNetwork, dest) THEN "route"
  ELSE "noroute"

\* OnNetwork delivers the store's new value and the value before it.
onNetworkChange(newNetwork) ==
  /\ mounted
  /\ Len(tickQueue) < MaxTicks
  /\ network' = newNetwork
  /\ updateForm("update")
  /\ destinationChain' = onNetworkChangeDest(newNetwork, network, destinationChain)
  /\ lastOp' = [Op("onNetworkChange") EXCEPT
                  !.case = networkCase(newNetwork, destinationChain)]
  /\ UNCHANGED <<activeStep, importMethod, selectedToken, account, form, nftIdArray, scanVars, mounted,
                 call, txLog>>

\* ----------------------------------------------------- onAccountChange
\* Lines 85-91.
onAccountChange(acc) ==
  /\ mounted
  /\ Len(tickQueue) < MaxTicks
  /\ account' = acc
  /\ updateForm(IF isDisconnected(acc) /\ selectedToken # NULL /\ destinationChain # NoChain
                THEN "disconnect" ELSE "update")
  /\ IF isDisconnected(acc)
       THEN selectedToken' = NULL /\ destinationChain' = NoChain
       ELSE UNCHANGED <<selectedToken, destinationChain>>
  /\ lastOp' = [Op("onAccountChange") EXCEPT
                  !.case = IF isDisconnected(acc) /\ selectedToken # NULL
                              /\ destinationChain # NoChain
                           THEN "disconnect" ELSE "none"]
  /\ UNCHANGED <<activeStep, importMethod, network, form, nftIdArray, scanVars, mounted, call, txLog>>

\* The callback of updateForm (lines 94-101), run once the tick has completed.
runUpdateForm ==
  /\ tickQueue # <<>>
  /\ tickQueue' = Tail(tickQueue)
  /\ IF importMethod = "manual" THEN runValidations ELSE resetForm
  /\ lastOp' = [Op("updateForm") EXCEPT !.case = Head(tickQueue)]
  /\ UNCHANGED <<activeStep, importMethod, destinationChain, network, account,
                 nftIdArray, scanVars, mounted, call, txLog>>

\* ------------------------------------------------------- step buttons
\* nextStep (line 265) behind the scan-mode continue button (lines 407-413).
nextStep ==
  /\ mounted
  /\ tickQueue = <<>>
  /\ activeStep = IMPORT /\ importMethod = "scan" /\ scanned /\ canProceed
  /\ activeStep' = nextStepOf(activeStep)
  /\ lastOp' = Op("nextStep")
  /\ UNCHANGED <<importMethod, stores, form, nftIdArray, scanVars, mounted, tickQueue, call, txLog>>

\* previousStep (line 266) behind the edit button (lines 382-388).
previousStep ==
  /\ mounted
  /\ tickQueue = <<>>
  /\ activeStep # IMPORT
  /\ activeStep' = previousStepOf(activeStep)
  /\ lastOp' = Op("previousStep")
  /\ UNCHANGED <<importMethod, stores, form, nftIdArray, scanVars, mounted, tickQueue, call, txLog>>

\* nextStep and previousStep (lines 265-266) as functions of the step alone,
\* applied at whatever step the component is on.
applyNextStep ==
  /\ mounted
  /\ tickQueue = <<>>
  /\ activeStep' = nextStepOf(activeStep)
  /\ lastOp' = [Op("nextStep") EXCEPT
                  !.case = IF activeStep = CONFIRM THEN "clamped" ELSE "none"]
  /\ UNCHANGED <<importMethod, stores, form, nftIdArray, scanVars, mounted, tickQueue, call, txLog>>

applyPreviousStep ==
  /\ mounted
  /\ tickQueue = <<>>
  /\ activeStep' = previousStepOf(activeStep)
  /\ lastOp' = [Op("previousStep") EXCEPT
                  !.case = IF activeStep = IMPORT THEN "clamped" ELSE "none"]
  /\ UNCHANGED <<importMethod, stores, form, nftIdArray, scanVars, mounted, tickQueue, call, txLog>>

\* The scan-mode back button (line 415) calls resetForm directly.
resetFormButton ==
  /\ mounted
  /\ tickQueue = <<>>
  /\ activeStep = IMPORT /\ importMethod = "scan" /\ scanned
  /\ resetForm
  /\ lastOp' = Op("resetForm")
  /\ UNCHANGED <<activeStep, importMethod, destinationChain, network, account,
                 nftIdArray, scanVars, mounted, tickQueue, call, txLog>>

\* changeImportMethod (lines 306-309), the function: it has no guard of its
\* own.
toggled(method) == IF method = "manual" THEN "scan" ELSE "manual"

changeImportMethod ==
  /\ mounted
  /\ tickQueue = <<>>
  /\ importMethod' = toggled(importMethod)
  /\ resetForm
  /\ lastOp' = [Op("changeImportMethod") EXCEPT
                  !.case = IF selectedNFT # <<>> /\ scanned /\ canProceed
                           THEN "filled" ELSE "none"]
  /\ UNCHANGED <<activeStep, destinationChain, network, account, nftIdArray, scanVars, mounted,
                 tickQueue, call, txLog>>

\* Line 316: whether manualImportAction starts the metadata lookup.
lookupStarted(address, chain) == address # "" /\ chain # NoChain

\* The manual-mode back button of the import step (lines 394-405) calls
\* changeImportMethod.
changeImportMethodButton ==
  /\ activeStep = IMPORT /\ importMethod = "manual"
  /\ changeImportMethod

\* manualImportAction (lines 311-329) behind the manual-mode button (lines
\* 395-401).  contractAddress is handed to the import step one-way and is never
\* assigned anything but '', so the lookup of line 317 is not started; line 312
\* throws before anything is written when there is no network.
manualImportAction ==
  /\ mounted
  /\ tickQueue = <<>>
  /\ activeStep = IMPORT /\ importMethod = "manual" /\ canProceed
  /\ IF network = NoChain
       THEN UNCHANGED activeStep
       ELSE activeStep' = nextStepOf(activeStep)
  /\ lastOp' = Op("manualImportAction")
  /\ UNCHANGED <<importMethod, stores, form, nftIdArray, scanVars, mounted, tickQueue, call, txLog>>

\* Faulty variant: the reactive statement resets the form and keeps the step.
activeBridgeChangeKeepsStep ==
  /\ mounted
  /\ tickQueue = <<>>
  /\ resetForm
  /\ lastOp' = [Op("activeBridge") EXCEPT
                  !.case = IF activeStep # IMPORT /\ selectedNFT # <<>>
                           THEN "filled" ELSE "none"]
  /\ UNCHANGED <<activeStep, importMethod, destinationChain, network, account,
                 nftIdArray, scanVars, mounted, tickQueue, call, txLog>>

\* The reactive statement of line 332, run when $activeBridge is set.
activeBridgeChange ==
  /\ mounted
  /\ tickQueue = <<>>
  /\ resetForm
  /\ activeStep' = IMPORT
  /\ lastOp' = [Op("activeBridge") EXCEPT
                  !.case = IF activeStep # IMPORT /\ selectedNFT # <<>>
                           THEN "filled" ELSE "none"]
  /\ UNCHANGED <<importMethod, destinationChain, network, account, nftIdArray, scanVars, mounted,
                 tickQueue, call, txLog>>

\* onDestroy (lines 341-343): the teardown hook resets the form; callbacks and
\* awaits already scheduled still run afterwards.
ResetOps == {"resetForm", "changeImportMethod", "activeBridge", "onDestroy"}

onDestroy ==
  /\ mounted
  /\ mounted' = FALSE
  /\ resetForm
  /\ lastOp' = [Op("onDestroy") EXCEPT
                  !.case = IF lastOp.name \in ResetOps THEN "again" ELSE "none"]
  /\ UNCHANGED <<activeStep, importMethod, destinationChain, network, account,
                 nftIdArray, scanVars, tickQueue, call, txLog>>

\* ---------------------------------------------------------- scanForNFTs
\* What fetchNFTs may resolve with.
ScanResults == {<<>>, <<7, 9>>}

\* Line 288: the account address or the source chain id is missing.
scanStops(acc, net) == addressOf(acc) = NULL \/ net = NoChain

\* scanForNFTs (lines 284-293) is handed to the import step (line 364), which
\* calls it; lines 285-289, up to the await of fetchNFTs.
scanForNFTs ==
  /\ mounted
  /\ tickQueue = <<>>
  /\ activeStep = IMPORT
  /\ scanCall = "idle"
  /\ scanning' = TRUE
  /\ scanCall' = IF scanStops(account, network) THEN "idle" ELSE "fetching"
  /\ lastOp' = [Op("scanForNFTs") EXCEPT
                  !.case = IF scanStops(account, network) THEN "stopped" ELSE "none"]
  /\ UNCHANGED <<activeStep, importMethod, stores, form, nftIdArray, foundNFTs,
                 mounted, tickQueue, call, txLog>>

\* Lines 289-292, resumed when fetchNFTs settles: a rejection leaves the
\* function at line 289, there is no try around the await.
scanSettle(ok, result) ==
  /\ tickQueue = <<>>
  /\ scanCall = "fetching"
  /\ scanCall' = "idle"
  /\ IF ~ok
       THEN UNCHANGED <<scanning, foundNFTs, scanned>>
       ELSE foundNFTs' = result /\ scanning' = FALSE /\ scanned' = TRUE
  /\ lastOp' = [Op("scanForNFTs") EXCEPT
                  !.case = IF ok THEN "done" ELSE "rejected"]
  /\ UNCHANGED <<activeStep, importMethod, stores, selectedNFT, canProceed,
                 contractAddress, nftIdArray, mounted, tickQueue, call, txLog>>

\* ------------------------------------------------ writes by child components
\* ImportStep (lines 360-369) writes the variables bound to it, and selects the
\* token through the shared store.
importStepSelect(sel, cp, tok, sc) ==
  /\ mounted
  /\ tickQueue = <<>>
  /\ activeStep = IMPORT
  /\ selectedNFT' = sel
  /\ canProceed' = cp
  /\ scanned' = sc
  /\ selectedToken' = tok
  /\ lastOp' = Op("importStep")
  /\ UNCHANGED <<activeStep, importMethod, destinationChain, network, account,
                 contractAddress, nftIdArray, scanVars, mounted, tickQueue, call, txLog>>

importStepMethod(method) ==
  /\ mounted
  /\ tickQueue = <<>>
  /\ activeStep = IMPORT
  /\ importMethod' = method
  /\ lastOp' = Op("importStep")
  /\ UNCHANGED <<activeStep, stores, form, nftIdArray, scanVars, mounted, tickQueue, call, txLog>>

\* ImportStep is handed nftIdArray itself (line 365, no bind:): the component
\* never assigns the variable again, and sees entered ids only if the import
\* step fills the array it was handed in place.
ManualIds == {<<>>, <<5>>}

importStepIds(ids) ==
  /\ mounted
  /\ tickQueue = <<>>
  /\ activeStep = IMPORT
  /\ nftIdArray' = ids
  /\ lastOp' = Op("importStep")
  /\ UNCHANGED <<activeStep, importMethod, stores, form, scanVars, mounted, tickQueue, call,
                 txLog>>

\* ChainSelectorWrapper (line 376) sets the destination chain, to a chain
\* other than the source.
selectDestination(chain) ==
  /\ mounted
  /\ tickQueue = <<>>
  /\ activeStep = CONFIRM
  /\ chain # network
  /\ destinationChain' = chain
  /\ lastOp' = Op("selectDestination")
  /\ UNCHANGED <<activeStep, importMethod, selectedToken, network, account, form,
                 nftIdArray, scanVars, mounted, tickQueue, call, txLog>>

\* ------------------------------------------------- approve() and bridge()
\* One orchestrator call is in flight at a time (the actions component disables
\* its buttons until the promise settles).  call holds the invocation's locals
\* while it is suspended and what the invocation did: the notifications it
\* emitted, its registrations with the pending-transaction tracker, the
\* re-checks it triggered, the errors raised in it and those routed to
\* handleBridgeError.  An invocation resumes in a later turn of the event loop,
\* after the deferred form updates of earlier turns have run.  cause tells an
\* error a collaborator raised (a rejected await) from one the component's own
\* statements raised.
NoHash == ""
TxHash == "0xh1"
NoAddr == ""
OwnAddress == "0xabc"
CrossAddress == "0xDEF"

NoCall == [op |-> "none", pc |-> "done", outcome |-> "none", cause |-> "none",
           from |-> NULL, type |-> NULL, src |-> NoChain, dest |-> NoChain,
           txHash |-> NoHash, tokenAddress |-> NoAddr, spender |-> <<>>,
           tokenIds |-> <<>>, crossAsked |-> FALSE,
           toasts |-> 0, registered |-> 0, raised |-> 0, handled |-> 0,
           rechecked |-> 0]

\* The locals of an invocation that has used them are gone.
Dropped(c) ==
  [c EXCEPT !.type = NULL, !.tokenAddress = NoAddr, !.spender = <<>>,
            !.tokenIds = <<>>, !.crossAsked = FALSE]

\* A settled invocation: what it did remains.
Settled(c, outcome) ==
  [Dropped(c) EXCEPT !.pc = "done", !.outcome = outcome, !.from = NULL,
                     !.src = NoChain, !.dest = NoChain]

\* Faulty variant: bridge's try starts after the wallet lookup.
inTryAfterWallet(op, pc) == ~(op = "bridge" /\ pc = "wallet")

\* The try blocks: approve's body is the try of lines 105-161; bridge's try
\* (lines 170-231) starts after the guard of line 168, which cannot throw.
inTry(op, pc) == TRUE

\* An exception raised at c.pc: caught and routed to handleBridgeError (lines
\* 161-164, 231-234), or rejecting the promise when raised outside the try.
Throw(c, cause) ==
  IF inTry(c.op, c.pc)
    THEN Settled([c EXCEPT !.raised = @ + 1, !.handled = @ + 1, !.cause = cause],
                 "caught")
    ELSE Settled([c EXCEPT !.raised = @ + 1, !.cause = cause], "rejected")

\* Faulty variant: the guard forgets the destination chain.
approvePreconditionNoDest(tok, net, dest) == tok # NULL /\ net # NoChain

\* Line 106.
approvePrecondition(tok, net, dest) == tok # NULL /\ net # NoChain /\ dest # NoChain

\* Line 168.
bridgePrecondition(service, tok, net, dest, address) ==
  service /\ tok # NULL /\ net # NoChain /\ dest # NoChain /\ address # NULL

\* $selectedToken.addresses[chain] (line 109): the ERC721 token is deployed on
\* chain 1 only, the ERC1155 token on every chain, ETHToken has no contract.
tokenAddressOn(tok, chain) ==
  IF tok = "ERC1155" \/ (tok = "ERC721" /\ chain = 1) THEN OwnAddress ELSE NoAddr

\* What getCrossChainAddress (lines 112-116) answers: the bridged ERC721.
crossChainAddress(tok, src, dest) ==
  IF tok = "ERC721" THEN CrossAddress ELSE NoAddr

\* viem's getAddress: the checksummed form of a valid address; anything else
\* (an absent address included) raises InvalidAddressError.
checksum(address) == IF address = OwnAddress THEN "0xAbC" ELSE address
getAddress(address) == IF address = NoAddr THEN "throw" ELSE checksum(address)

\* Lines 123-124, 180-181, 216-217: BigInt of a number.
BigInt(n) == [bigint |-> n]
\* Faulty variant: the entered ids are ignored.
tokenIdsOfSelected(ids, nfts) == [i \in 1..Len(nfts) |-> BigInt(nfts[i])]

tokenIdsOf(ids, nfts) ==
  IF Len(ids) > 0 THEN [i \in 1..Len(ids) |-> BigInt(ids[i])]
                  ELSE [i \in 1..Len(nfts) |-> BigInt(nfts[i])]

\* Lines 128-131: the vault of routingContractsMap[src][dest] for the type.
spenderAddress(type, src, dest) ==
  IF type = "ERC1155" THEN <<"erc1155VaultAddress", src, dest>>
                      ELSE <<"erc721VaultAddress", src, dest>>

\* let actionsComponent: Actions (line 55) is never assigned: the template's
\* <Actions> (line 392) has no bind:this.
actionsComponent == NULL

\* The keys of the transaction log: $account.address, undefined included.
LogKeys == {"0xa1", "0xa2", NULL}
LogSize == Len(txLog["0xa1"]) + Len(txLog["0xa2"]) + Len(txLog[NULL])

callFrame == <<activeStep, importMethod, stores, form, nftIdArray, scanVars, mounted,
              tickQueue,
              txLog>>

\* approve() is invoked from the actions component, shown on the review step.
approveInvoke ==
  /\ mounted
  /\ tickQueue = <<>>
  /\ activeStep = REVIEW
  /\ call.pc = "done"
  /\ LogSize < MaxLog
  /\ LET c == [NoCall EXCEPT !.op = "approve"]
     IN  call' = IF approvePrecondition(selectedToken, network, destinationChain)
                   THEN [c EXCEPT !.pc = "wallet", !.outcome = "pending",
                                  !.type = selectedToken]
                   ELSE Settled(c, "returned")
  /\ lastOp' = Op("approve")
  /\ UNCHANGED callFrame

\* Lines 109-134, from the address resolution to the approval submission.
\* crossOk: whether getCrossChainAddress, if awaited, resolves.
approveResolve(c, crossOk) ==
  IF selectedToken = NULL \/ network = NoChain THEN Throw(c, "code")
  ELSE LET checked == getAddress(tokenAddressOn(selectedToken, network))
           asked == checked = NoAddr
           cross == crossChainAddress(selectedToken, network, destinationChain)
       IN  IF checked = "throw" THEN Throw(c, "code")
           ELSE IF asked /\ destinationChain = NoChain THEN Throw(c, "code")
           ELSE IF asked /\ ~crossOk
             THEN Throw([c EXCEPT !.crossAsked = TRUE], "collaborator")
           ELSE IF asked /\ cross = NoAddr
             THEN Throw([c EXCEPT !.crossAsked = TRUE], "code")
           ELSE IF destinationChain = NoChain \/ ~hasBridge(network, destinationChain)
             THEN Throw([c EXCEPT !.crossAsked = asked], "code")
           ELSE [c EXCEPT !.pc = "submit", !.crossAsked = asked,
                          !.tokenAddress = IF asked THEN cross ELSE checked,
                          !.tokenIds = tokenIdsOf(nftIdArray, selectedNFT),
                          !.spender = spenderAddress(c.type, network, destinationChain)]

\* Resumed when getConnectedWallet (line 108) settles.
approveWallet(ok, crossOk) ==
  /\ tickQueue = <<>>
  /\ call.op = "approve" /\ call.pc = "wallet"
  /\ call' = IF ok THEN approveResolve(call, crossOk) ELSE Throw(call, "collaborator")
  /\ lastOp' = Op("approve")
  /\ UNCHANGED callFrame

\* Lines 134-149, resumed when the approval submission settles.
approveSubmit(result) ==
  /\ tickQueue = <<>>
  /\ call.op = "approve" /\ call.pc = "submit"
  /\ call' =
       IF result = "throw" THEN Throw(call, "collaborator")
       ELSE IF network = NoChain THEN Throw([call EXCEPT !.txHash = result], "code")
       ELSE IF result # NoHash /\ selectedToken = NULL
         THEN Throw([call EXCEPT !.txHash = result], "code")
       ELSE [Dropped(call) EXCEPT !.pc = "pending", !.txHash = result,
                                  !.toasts = IF result # NoHash THEN @ + 1 ELSE @,
                                  !.registered = @ + 1]
  /\ lastOp' = Op("approve")
  /\ UNCHANGED callFrame

\* Lines 149-160, resumed when pendingTransactions.add settles.
approvePending(ok) ==
  /\ tickQueue = <<>>
  /\ call.op = "approve" /\ call.pc = "pending"
  /\ call' =
       IF ~ok THEN Throw(call, "collaborator")
       ELSE IF actionsComponent = NULL THEN Throw(call, "code")
       ELSE IF selectedToken = NULL
         THEN Throw([call EXCEPT !.rechecked = @ + 1], "code")
       ELSE Settled([call EXCEPT !.rechecked = @ + 1, !.toasts = @ + 1], "returned")
  /\ lastOp' = Op("approve")
  /\ UNCHANGED callFrame

\* ---------------------------------------------------------------- bridge()
\* Lines 210-226: the record, built from the stores as they are at that point
\* (amount, symbol, decimals, tokenType and timestamp are left out).
bridgeTx(hash, acc, net, dest) ==
  [hash |-> hash, from |-> addressOf(acc), srcChainId |-> BigInt(net),
   destChainId |-> BigInt(dest), status |-> "NEW"]

\* bridgeTxService.addTxByAddress (line 228): append to the address's log.
addTxByAddress(log, address, tx) == [log EXCEPT ![address] = Append(@, tx)]

\* bridge() is invoked from the actions component, shown on the review step.
\* service: whether $bridgeService holds a bridge.  from: the address of the
\* account connected when the call starts.
bridgeInvoke(service) ==
  /\ mounted
  /\ tickQueue = <<>>
  /\ activeStep = REVIEW
  /\ call.pc = "done"
  /\ LogSize < MaxLog
  /\ LET c == [NoCall EXCEPT !.op = "bridge"]
     IN  call' = IF bridgePrecondition(service, selectedToken, network,
                                       destinationChain, addressOf(account))
                   THEN [c EXCEPT !.pc = "wallet", !.outcome = "pending",
                                  !.from = addressOf(account)]
                   ELSE Settled(c, "returned")
  /\ lastOp' = Op("bridge")
  /\ UNCHANGED callFrame

\* Lines 171-183, resumed when getConnectedWallet settles: commonArgs are read
\* from the stores and getBridgeArgs is called.
bridgeWallet(ok) ==
  /\ tickQueue = <<>>
  /\ call.op = "bridge" /\ call.pc = "wallet"
  /\ call' = IF ~ok THEN Throw(call, "collaborator")
             ELSE IF network = NoChain \/ destinationChain = NoChain
               THEN Throw(call, "code")
             ELSE [call EXCEPT !.pc = "args", !.src = network,
                               !.dest = destinationChain]
  /\ lastOp' = Op("bridge")
  /\ UNCHANGED callFrame

\* Lines 183-187, resumed when getBridgeArgs settles: the bridge is submitted.
bridgeArgs(ok) ==
  /\ tickQueue = <<>>
  /\ call.op = "bridge" /\ call.pc = "args"
  /\ call' = IF ok THEN [call EXCEPT !.pc = "submit"]
                   ELSE Throw(call, "collaborator")
  /\ lastOp' = Op("bridge")
  /\ UNCHANGED callFrame

\* Lines 187-202, resumed when the bridge submission settles.
bridgeSubmit(result) ==
  /\ tickQueue = <<>>
  /\ call.op = "bridge" /\ call.pc = "submit"
  /\ call' =
       IF result = "throw" THEN Throw(call, "collaborator")
       ELSE IF selectedToken = NULL
         THEN Throw([call EXCEPT !.txHash = result], "code")
       ELSE IF network = NoChain
         THEN Throw([call EXCEPT !.txHash = result, !.toasts = @ + 1], "code")
       ELSE [call EXCEPT !.pc = "pending", !.txHash = result, !.toasts = @ + 1,
                         !.registered = @ + 1]
  /\ lastOp' = Op("bridge")
  /\ UNCHANGED callFrame

\* Whether building the record (lines 210-226) raises: it reads the stores.
bridgeRecordThrows ==
  selectedToken = NULL \/ network = NoChain \/ destinationChain = NoChain

\* Faulty variant: nextStep() runs before the statements that can raise.
stepAfterBridgeAlways(step, threw) == nextStepOf(step)

\* nextStep() (line 230) is the last statement of the try: it runs only when
\* nothing before it raised.
stepAfterBridge(step, threw) == IF threw THEN step ELSE nextStepOf(step)

\* Lines 202-230, resumed when pendingTransactions.add settles.  stored: whether
\* addTxByAddress succeeds.
bridgePending(ok, stored) ==
  /\ tickQueue = <<>>
  /\ call.op = "bridge" /\ call.pc = "pending"
  /\ LET threw == ~ok \/ bridgeRecordThrows \/ ~stored
     IN  /\ call' = IF ~ok THEN Throw(call, "collaborator")
                    ELSE IF bridgeRecordThrows
                      THEN Throw([call EXCEPT !.toasts = @ + 1], "code")
                    ELSE IF ~stored
                      THEN Throw([call EXCEPT !.toasts = @ + 1], "collaborator")
                    ELSE Settled([call EXCEPT !.toasts = @ + 1], "returned")
         /\ txLog' = IF threw THEN txLog
                     ELSE addTxByAddress(txLog, addressOf(account),
                            bridgeTx(call.txHash, account, network, destinationChain))
         /\ activeStep' = stepAfterBridge(activeStep, threw)
  /\ lastOp' = Op("bridge")
  /\ UNCHANGED <<importMethod, stores, form, nftIdArray, scanVars, mounted, tickQueue>>

\* ------------------------------------------------------------ specification
\* After construction the reactive statement of line 332 has run once
\* ($activeBridge is a non-empty string): the form is reset and the step is
\* IMPORT.  The shared stores hold whatever the application left in them: a
\* source, a destination other than the source, an account.
Init ==
  /\ activeStep = IMPORT
  /\ importMethod = "scan"
  /\ selectedToken = resetFormToken
  /\ destinationChain \in ChainOrNone
  /\ network \in ChainOrNone
  /\ destinationChain = NoChain \/ destinationChain # network
  /\ account \in Accounts
  /\ selectedNFT = <<>>
  /\ canProceed = FALSE
  /\ scanned = FALSE
  /\ contractAddress = ""
  /\ nftIdArray = <<>>
  /\ scanning = FALSE
  /\ foundNFTs = <<>>
  /\ scanCall = "idle"
  /\ mounted = TRUE
  /\ tickQueue = <<>>
  /\ call = NoCall
  /\ txLog = [k \in LogKeys |-> <<>>]
  /\ lastOp = Op("init")

\* The reconciler, the workflow steps and the import form, with the chains the
\* stores range over and the values the import step binds.
Form(chains, sels, flags) ==
  \/ \E n \in chains \cup {NoChain} : onNetworkChange(n)
  \/ \E a \in Accounts : onAccountChange(a)
  \/ runUpdateForm
  \/ nextStep
  \/ previousStep
  \/ resetFormButton
  \/ changeImportMethodButton
  \/ manualImportAction
  \/ activeBridgeChange
  \/ \E sel \in sels, cp \in flags, sc \in flags, tok \in NFTTokens :
       importStepSelect(sel, cp, tok, sc)
  \/ \E m \in {"scan", "manual"} : importStepMethod(m)

Approves ==
  \/ approveInvoke
  \/ \E ok \in BOOLEAN, crossOk \in BOOLEAN : approveWallet(ok, crossOk)
  \/ \E result \in {"throw", NoHash, TxHash} : approveSubmit(result)
  \/ \E ok \in BOOLEAN : approvePending(ok)

Bridges ==
  \/ \E service \in BOOLEAN : bridgeInvoke(service)
  \/ \E ok \in BOOLEAN : bridgeWallet(ok)
  \/ \E ok \in BOOLEAN : bridgeArgs(ok)
  \/ \E result \in {"throw", TxHash} : bridgeSubmit(result)
  \/ \E ok \in BOOLEAN, stored \in BOOLEAN : bridgePending(ok, stored)

Orchestrators == Approves \/ Bridges

\* The reconciler and the form alone, over every chain and every bound value
\* (the confirm step, and with it the chain selector, is reached by bridge()).
NextForm == Form(Chains, Selections, BOOLEAN)
SpecForm == Init /\ [][NextForm]_vars

\* The whole component.  The orchestrators are followed between two chains
\* with a route in each direction, with the import step binding a complete
\* selection.
CallChains == {1, 2}
InitCall == Init /\ network \in CallChains \cup {NoChain}
                 /\ destinationChain \in CallChains \cup {NoChain}
Next ==
  \/ Form(CallChains, {<<7, 9>>}, {TRUE})
  \/ \E c \in CallChains : selectDestination(c)
  \/ Orchestrators
Spec == InitCall /\ [][Next]_vars

\* The reconciler and the form, with the scans the import step starts and the
\* teardown of the component.
NextScan ==
  \/ NextForm
  \/ scanForNFTs
  \/ \E ok \in BOOLEAN, result \in ScanResults : scanSettle(ok, result)
  \/ onDestroy
SpecScan == Init /\ [][NextScan]_vars

\* approve() alone, with the import step also filling the id array in place.
NextApprove ==
  \/ Form(CallChains, {<<7, 9>>}, {TRUE})
  \/ \E ids \in ManualIds : importStepIds(ids)
  \/ Approves
SpecApprove == InitCall /\ [][NextApprove]_vars

\* The reconciler and the form, with nextStep, previousStep and
\* changeImportMethod also applied as functions in every state, the ones their
\* buttons are not shown in included; bridge()'s call of nextStep (line 230)
\* is one such application.
NextSteps ==
  \/ NextForm
  \/ \E c \in Chains : selectDestination(c)
  \/ applyNextStep
  \/ applyPreviousStep
  \/ changeImportMethod
SpecSteps == Init /\ [][NextSteps]_vars

\* ------------------------------------------------------------------ claims
OrchestratorStep == lastOp'.name \in {"approve", "bridge"}
InvokeStep == OrchestratorStep /\ call.pc = "done"
SettleStep == OrchestratorStep /\ call.pc # "done" /\ call'.pc = "done"
PreconditionUnset ==
  selectedToken = NULL \/ network = NoChain \/ destinationChain = NoChain

\* Exactly one record, with status NEW, is appended to address's log and no
\* other log changes.
AppendsOneNew(address) ==
  /\ Len(txLog'[address]) = Len(txLog[address]) + 1
  /\ SubSeq(txLog'[address], 1, Len(txLog[address])) = txLog[address]
  /\ txLog'[address][Len(txLog'[address])].status = "NEW"
  /\ \A k \in LogKeys \ {address} : txLog'[k] = txLog[k]

\* C1: a bridge() invocation whose submission returned a transaction hash, and
\* none of whose collaborators failed, appends exactly one record with status
\* NEW to the log of the account that submitted it and moves activeStep forward
\* by one, whatever handlers ran while it was suspended.
C1_BridgeRecordsSubmission ==
  [][(SettleStep /\ call.op = "bridge" /\ call'.txHash # NoHash
        /\ call'.cause # "collaborator")
       => (AppendsOneNew(call.from) /\ activeStep' = activeStep + 1)]_vars

\* C2: approve() or bridge() invoked with selectedToken, network or
\* destinationChain unset returns at once: no notification, no registration with
\* the pending-transaction tracker, no record, no call of the error handler, and
\* activeStep, selectedToken, selectedNFT and destinationChain are unchanged.
C2_UnsetPreconditionNoEffect ==
  [][(InvokeStep /\ PreconditionUnset)
       => (/\ call'.pc = "done" /\ call'.outcome = "returned"
           /\ call'.toasts = 0 /\ call'.registered = 0
           /\ call'.raised = 0 /\ call'.handled = 0
           /\ txLog' = txLog
           /\ UNCHANGED <<activeStep, selectedToken, selectedNFT, destinationChain>>)]_vars

\* An approve() invoked on the review step without a destination chain has
\* returned.
C2_Witness ==
  /\ lastOp.name = "approve" /\ call.op = "approve" /\ call.outcome = "returned"
  /\ selectedToken # NULL /\ network # NoChain /\ destinationChain = NoChain

\* C3: no step of an approve() or bridge() invocation that raises writes
\* activeStep or appends a record: every step of an invocation except the one
\* that completes it successfully leaves both as they were.
C3_FailureKeepsStepAndLog ==
  [][(OrchestratorStep /\ call'.outcome \in {"pending", "caught"})
       => (activeStep' = activeStep /\ txLog' = txLog)]_vars

\* A bridge() whose record could not be stored, after the submission and the
\* registration had succeeded, is still on the review step with an empty log.
C3_Witness ==
  /\ lastOp.name = "bridge" /\ call.op = "bridge" /\ call.outcome = "caught"
  /\ call.txHash # NoHash /\ call.registered = 1 /\ call.toasts = 2
  /\ activeStep = REVIEW /\ LogSize = 0

\* C4: every exception raised in approve() or bridge() is routed once to
\* handleBridgeError and the promise never rejects.
C4_NoErrorEscapes ==
  /\ call.outcome # "rejected"
  /\ call.handled = call.raised
  /\ call.raised = (IF call.outcome = "caught" THEN 1 ELSE 0)

\* A bridge() that raised in its first statement after the guard (the wallet
\* lookup) has been handled.
C4_Witness ==
  /\ call.op = "bridge" /\ call.outcome = "caught" /\ call.handled = 1
  /\ call.txHash = NoHash /\ call.toasts = 0 /\ call.cause = "collaborator"

\* C5: when a destination chain is set and the new network is that chain,
\* onNetworkChange(newNetwork, oldNetwork) leaves the destination chain set to
\* oldNetwork, the source before the change.
C5_SwapSetsDestinationToOldNetwork ==
  [][(lastOp'.name = "onNetworkChange" /\ destinationChain # NoChain
        /\ network' = destinationChain)
       => destinationChain' = network]_vars

\* Source and destination have been swapped: the handler saw its new network
\* equal to the destination, and the destination is now the chain left.
C5_Witness ==
  /\ lastOp.name = "onNetworkChange" /\ lastOp.case = "swap"
  /\ destinationChain # NoChain /\ destinationChain # network

\* C6: when a destination chain is set, the new network is another chain and no
\* route leads from it to the destination, onNetworkChange leaves the
\* destination chain unset.
C6_NoRouteClearsDestination ==
  [][(lastOp'.name = "onNetworkChange" /\ destinationChain # NoChain
        /\ network' # NoChain /\ network' # destinationChain
        /\ ~hasBridge(network', destinationChain))
       => destinationChain' = NoChain]_vars

\* The handler saw a destination without a route from the new network.
C6_Witness ==
  /\ lastOp.name = "onNetworkChange" /\ lastOp.case = "noroute"
  /\ network # NoChain /\ destinationChain = NoChain

\* C7: when a destination chain is set, the new network is another chain and a
\* route leads from it to the destination, the destination chain after
\* onNetworkChange is the chain it was before.
C7_RouteKeepsDestination ==
  [][(lastOp'.name = "onNetworkChange" /\ destinationChain # NoChain
        /\ network' # NoChain /\ network' # destinationChain
        /\ hasBridge(network', destinationChain))
       => destinationChain' = destinationChain]_vars

\* C8: once onAccountChange has been delivered with a disconnected account
\* while selectedToken and destinationChain were set, both are unset, after the
\* handler and after the form update it scheduled has run.
C8_DisconnectClearsTokenAndDestination ==
  (lastOp.name \in {"onAccountChange", "updateForm"} /\ lastOp.case = "disconnect")
    => (selectedToken = NULL /\ destinationChain = NoChain)

\* C9: after changeImportMethod, from any state, selectedNFT and
\* contractAddress are empty, scanned and canProceed are false, and activeStep
\* is what it was.
C9_ChangeImportMethodResets ==
  [][lastOp'.name = "changeImportMethod"
       => (/\ selectedNFT' = <<>> /\ contractAddress' = ""
           /\ scanned' = FALSE /\ canProceed' = FALSE
           /\ activeStep' = activeStep)]_vars

\* The method was switched from manual to scan on the import step with NFTs
\* selected, the scan done and the form ready to proceed.
C9_Witness ==
  /\ lastOp.name = "changeImportMethod" /\ lastOp.case = "filled"
  /\ importMethod = "scan" /\ activeStep = IMPORT

\* C11: manualImportAction advances the step only as the result of a
\* successful lookup: a call in which no lookup succeeded (none was even
\* started) leaves selectedNFT, selectedToken and activeStep as they were.
C11_StepAdvancesOnlyOnLookupSuccess ==
  [][(lastOp'.name = "manualImportAction"
        /\ ~lookupStarted(contractAddress, network))
       => (activeStep' = activeStep /\ UNCHANGED <<selectedNFT, selectedToken>>)]_vars

\* C12: activeStep is always one of IMPORT, REVIEW, CONFIRM; nextStep moves it
\* up by one except at CONFIRM, where it stays; previousStep moves it down by
\* one except at IMPORT, where it stays.
C12_StepStaysInRange ==
  /\ [](activeStep \in {IMPORT, REVIEW, CONFIRM})
  /\ [][lastOp'.name = "nextStep" =>
           activeStep' = IF activeStep = CONFIRM THEN CONFIRM ELSE activeStep + 1]_vars
  /\ [][lastOp'.name = "previousStep" =>
           activeStep' = IF activeStep = IMPORT THEN IMPORT ELSE activeStep - 1]_vars

\* nextStep has been applied on the confirm step.
C12_Witness ==
  lastOp.name = "nextStep" /\ lastOp.case = "clamped" /\ activeStep = CONFIRM

\* C13: when the active bridge type changes, on whatever step, the form is
\* reset in the same step (selectedNFT empty, contractAddress empty, scanned
\* false, canProceed false) and activeStep becomes IMPORT.
C13_ActiveBridgeResets ==
  [][lastOp'.name = "activeBridge"
       => (/\ selectedNFT' = <<>> /\ contractAddress' = ""
           /\ scanned' = FALSE /\ canProceed' = FALSE
           /\ activeStep' = IMPORT)]_vars

\* The bridge type changed past the import step, with NFTs selected.
C13_Witness ==
  /\ lastOp.name = "activeBridge" /\ lastOp.case = "filled"
  /\ activeStep = IMPORT /\ selectedNFT = <<>>

\* C14: the approval approve() submits has as spender the ERC1155 vault of the
\* (source, destination) pair when the type of the selected token, read when
\* the call starts, is ERC1155, and the ERC721 vault of the pair otherwise; its
\* tokenIds are the entered ids when there is at least one, otherwise the ids
\* of the selected NFTs, each as a big integer of the same value.
C14_SpenderAndTokenIds ==
  [][(lastOp'.name = "approve" /\ call.op = "approve" /\ call'.pc = "submit")
       => LET ids == IF Len(nftIdArray) >= 1 THEN nftIdArray ELSE selectedNFT
              vault == IF call.type = "ERC1155" THEN "erc1155VaultAddress"
                                                ELSE "erc721VaultAddress"
          IN  /\ call'.spender = <<vault, network, destinationChain>>
              /\ Len(call'.tokenIds) = Len(ids)
              /\ \A i \in 1..Len(ids) : call'.tokenIds[i] = [bigint |-> ids[i]]]_vars

\* An ERC1155 approval is about to be submitted with the entered id, not the
\* ids of the selected NFTs.
C14_Witness ==
  /\ lastOp.name = "approve" /\ call.op = "approve" /\ call.pc = "submit"
  /\ call.type = "ERC1155" /\ call.spender[1] = "erc1155VaultAddress"
  /\ nftIdArray = <<5>> /\ selectedNFT = <<7, 9>>
  /\ call.tokenIds = <<[bigint |-> 5]>>

\* C15: when approve()'s submission returned a non-empty hash and the
\* registration with the pending-transaction tracker succeeded (the token still
\* selected), the call goes on to emit the success notification and returns
\* without the error handler being invoked, whether or not the actions
\* component handle is present.
C15_ApproveCompletes ==
  [][(lastOp'.name = "approve" /\ call.op = "approve" /\ call.pc = "pending"
        /\ call.txHash # NoHash /\ call'.cause # "collaborator"
        /\ selectedToken # NULL)
       => (/\ call'.outcome = "returned"
           /\ call'.toasts = call.toasts + 1
           /\ call'.handled = 0)]_vars

\* C16: every scanForNFTs invocation ends with scanning false and scanned
\* true: when the scan call completes, successfully or not, and when the
\* invocation stops because the account address or the source chain is missing.
C16_ScanEndsScanned ==
  [][(lastOp'.name = "scanForNFTs" /\ scanCall' = "idle")
       => (scanning' = FALSE /\ scanned' = TRUE)]_vars

\* C17: after every form reset (the back button's, changeImportMethod's, the
\* bridge-type switch's) the selected token is unset, foundNFTs is empty and
\* nftIdArray is empty.
C17_ResetClearsTokenScanAndIds ==
  [][lastOp'.name \in {"resetForm", "changeImportMethod", "activeBridge"}
       => (selectedToken' = NULL /\ foundNFTs' = <<>> /\ nftIdArray' = <<>>)]_vars

\* A step that runs resetForm, and a state a step that ran it produced.
RunsReset ==
  lastOp'.name \in ResetOps \/ (lastOp'.name = "updateForm" /\ importMethod = "scan")
RanReset ==
  lastOp.name \in ResetOps \/ (lastOp.name = "updateForm" /\ importMethod = "scan")

\* C18: resetForm is total and idempotent: it raises for no set of absent
\* dependent components, every run of it (the teardown hook's included)
\* reaches its last assignments, and a run that follows another run changes
\* nothing the first had written.
C18_ResetTotalAndIdempotent ==
  /\ [](\A present \in SUBSET Components : ~resetFormThrows(present))
  /\ [][RunsReset => (selectedNFT' = <<>> /\ canProceed' = FALSE)]_vars
  /\ [][(RanReset /\ RunsReset) => UNCHANGED <<selectedToken, form>>]_vars

\* The teardown hook has run resetForm right after another reset.
C18_Witness ==
  /\ lastOp.name = "onDestroy" /\ lastOp.case = "again" /\ ~mounted
  /\ selectedNFT = <<>> /\ ~canProceed /\ ~scanned

\* C19: every record bridge() appends is appended under the address of the
\* account connected when the call started, and carries the source and
\* destination chain ids of the arguments that were submitted, whatever
\* changed while the call was suspended.
C19_RecordMatchesSubmission ==
  [][(lastOp'.name = "bridge" /\ call.op = "bridge")
       => \A k \in LogKeys :
            Len(txLog'[k]) > Len(txLog[k]) =>
              LET rec == txLog'[k][Len(txLog'[k])]
              IN  /\ k = call.from
                  /\ rec.from = call.from
                  /\ rec.srcChainId = [bigint |-> call.src]
                  /\ rec.destChainId = [bigint |-> call.dest]]_vars

\* C20: whenever activeStep is REVIEW or CONFIRM there is something to
\* bridge: selectedNFT is not empty.
C20_SelectionPastImport ==
  activeStep \in {REVIEW, CONFIRM} => selectedNFT # <<>>

\* C10: in approve(), with the wallet found and a route configured, the token
\* address submitted is the token's own address on the source chain when it has
\* one, without a cross-chain lookup; otherwise the answer of the cross-chain
\* lookup; and when neither exists nothing is submitted.
C10_AddressResolution ==
  [][(OrchestratorStep /\ call.op = "approve" /\ call.pc = "wallet"
        /\ call'.cause # "collaborator"
        /\ selectedToken # NULL /\ network # NoChain /\ destinationChain # NoChain
        /\ hasBridge(network, destinationChain))
       => LET own == tokenAddressOn(selectedToken, network)
              cross == crossChainAddress(selectedToken, network, destinationChain)
          IN  /\ own # NoAddr =>
                   /\ call'.pc = "submit" /\ ~call'.crossAsked
                   /\ call'.tokenAddress = checksum(own)
              /\ (own = NoAddr /\ cross # NoAddr) =>
                   /\ call'.pc = "submit" /\ call'.crossAsked
                   /\ call'.tokenAddress = cross
              /\ (own = NoAddr /\ cross = NoAddr) => call'.outcome = "caught"]_vars

====
